---- MODULE Spec2Model ----
(***************************************************************************)
(* A model of src/main.py (StockTrackerApp): the tracked-stock store, the  *)
(* fetch threads that write it, the table redraw, the persisted code list  *)
(* and the auto-refresh timer.                                             *)
(*                                                                         *)
(* Processes.  The GUI thread ("main") runs the Tk event loop and the      *)
(* handlers; every fetch_stock runs in a thread of its own.  Python steps  *)
(* (dict reads and writes) of different threads interleave freely.  A Tk   *)
(* call made by a fetch thread is executed by the event loop of the GUI    *)
(* thread, hence only while no handler is running there (MainIdle).        *)
(*                                                                         *)
(* self.stocks is a dict: an insertion-ordered sequence of records here,   *)
(* with CPython's iterator checks ("changed size", "keys changed").  The   *)
(* compaction CPython does when a dict's entry table is full is not        *)
(* modelled.                                                               *)
(*                                                                         *)
(* Specifications.  Spec: the store, the table and the file with a user    *)
(* who adds, refreshes, deletes and clears.  SpecSched: the auto-refresh   *)
(* checkbox, spinbox and timers.  SpecRefresh and SpecReadd: a user who    *)
(* only refreshes, or only adds and deletes, with the history of what has  *)
(* happened kept in `hist`.                                                *)
(***************************************************************************)
EXTENDS Integers, Sequences, FiniteSets, Bags, TLC

VARIABLES
    stocks,               \* self.stocks: sequence of stock_info records, in dict order
    tree,                 \* self.tree: the rows of the table, [id, values, tags]
    config_file,          \* the file at self.config_file
    th,                   \* the running fetch_stock threads: a bag of [position, locals]
    mn,                   \* the GUI thread: position and locals of the running handler
    event,                \* what the last step has done: the message box shown, if any
    auto_refresh_var,     \* self.auto_refresh_var (the checkbox)
    auto_refresh_active,  \* self.auto_refresh_active
    refresh_interval,     \* self.refresh_interval, milliseconds
    interval_var,         \* self.interval_var (the spinbox text)
    timers,               \* pending root.after callbacks: the delay each was armed with
    spins,                \* number of spinbox clicks so far (bounded)
    hist                  \* history variable: what has happened so far, when recorded

vars == <<stocks, tree, config_file, th, mn, event, auto_refresh_var,
          auto_refresh_active, refresh_interval, interval_var, timers, spins, hist>>

\* ------------------------------------------------------------------ bounds

\* Fetch threads alive at the same time.
MaxThreads == 2
\* Pending root.after callbacks.
MaxTimers == 2
\* Spinbox clicks in one run.
MaxSpins == 2
\* Length of the recorded history.
MaxLog == 6

\* ------------------------------------------------------------- text values

\* Text is a tuple of one-character strings.
Digits == {"0", "1", "2", "3", "4", "5", "6", "7", "8", "9"}

C0050 == <<"0", "0", "5", "0">>
C2330 == <<"2", "3", "3", "0">>
Codes == {C0050, C2330}
\* A third code, typed only where three codes are needed.
C2454 == <<"2", "4", "5", "4">>

\* What the user may have typed into self.stock_input.
Inputs == { <<>>, <<" ">>, C0050, <<" ", "2", "3", "3", "0", " ">>,
            <<"2", "3", "3">>, <<"a", "0", "5", "0">> }

Range(s) == {s[i] : i \in 1..Len(s)}

RECURSIVE lstrip(_)
lstrip(s) == IF s # <<>> /\ Head(s) = " " THEN lstrip(Tail(s)) ELSE s

RECURSIVE rstrip(_)
rstrip(s) == IF s # <<>> /\ s[Len(s)] = " " THEN rstrip(SubSeq(s, 1, Len(s) - 1)) ELSE s

\* str.strip()
strip(s) == rstrip(lstrip(s))

\* str.upper()
upper(s) == [i \in 1..Len(s) |-> IF s[i] = "a" THEN "A" ELSE s[i]]

\* str.isdigit(): non-empty and every character a digit
isdigit(s) == s # <<>> /\ \A i \in 1..Len(s) : s[i] \in Digits

\* ------------------------------------------------------ the remote provider

\* A cell of a row of the provider's "data": text that is a number (its value
\* in hundredths, and whether it is written with grouping commas) or not.
Num(v, c) == [kind |-> "num", val |-> v, commas |-> c]
NotNum == [kind |-> "text", val |-> 0, commas |-> FALSE]

\* Rows of STOCK_DAY: date, volume, amount, open, high, low, close, change, count
\* (Python index 0..8, index 1..9 here).
RowOld == <<NotNum, Num(900000, TRUE), NotNum, Num(57000, FALSE), Num(57500, FALSE),
            Num(56500, FALSE), Num(57000, FALSE), Num(0, FALSE), NotNum>>
RowA == <<NotNum, Num(1234567800, TRUE), NotNum, Num(57500, FALSE), Num(58500, FALSE),
          Num(57000, FALSE), Num(58000, FALSE), Num(550, FALSE), NotNum>>
RowB == <<NotNum, Num(80000, FALSE), NotNum, Num(58000, FALSE), Num(58000, FALSE),
          Num(56000, FALSE), Num(56500, FALSE), Num(-1500, FALSE), NotNum>>
\* a change the provider writes as "--"
RowBad == <<NotNum, Num(1000, FALSE), NotNum, Num(100, FALSE), Num(100, FALSE),
            Num(100, FALSE), Num(100, FALSE), NotNum, NotNum>>

NameTSMC == <<"T", "S", "M", "C">>

\* Decoded JSON bodies.
RespA == [data |-> <<RowOld, RowA>>, name |-> NameTSMC]
RespB == [data |-> <<RowB>>]
RespEmpty == [data |-> <<>>]
RespNoData == [stat |-> "none"]
RespBad == [data |-> <<RowBad>>]

\* What requests.get(...), raise_for_status() and json() come to for a code,
\* together with the clock reading datetime.now() gives when the record is
\* built.  The provider has two answers with data for 0050 and one for 2330.
Outcomes(code) ==
    { [exc |-> "Timeout", body |-> RespEmpty, now |-> 0],
      [exc |-> "ConnectionError", body |-> RespEmpty, now |-> 0],
      [exc |-> "HTTPError", body |-> RespEmpty, now |-> 0],
      [exc |-> "none", body |-> RespEmpty, now |-> 1],
      [exc |-> "none", body |-> RespNoData, now |-> 1],
      [exc |-> "none", body |-> RespBad, now |-> 1],
      [exc |-> "none", body |-> RespB, now |-> 2] }
    \cup (IF code = C0050 THEN {[exc |-> "none", body |-> RespA, now |-> 1]} ELSE {})

\* float(s): a ValueError for text that is no number or has grouping commas
float_ok(cell) == cell.kind = "num" /\ ~cell.commas

\* int(s.replace(',', ''))
int_ok(cell) == cell.kind = "num" /\ cell.val % 100 = 0

\* data.get('data') and len(data['data']) > 0
has_data(body) == "data" \in DOMAIN body /\ Len(body.data) > 0

\* data['data'][-1]
latest(body) == body.data[Len(body.data)]

\* Whether building stock_info raises (an index or a conversion error).
parses(body) ==
    LET row == latest(body) IN
    /\ Len(row) >= 8
    /\ float_ok(row[7]) /\ float_ok(row[8]) /\ int_ok(row[2])
    /\ float_ok(row[4]) /\ float_ok(row[5]) /\ float_ok(row[6])

\* The dict literal of fetch_stock.
stock_info(code, body, now) ==
    LET row == latest(body) IN
    [code |-> code,
     name |-> IF "name" \in DOMAIN body THEN body.name ELSE code,
     price |-> row[7].val,
     change |-> row[8].val,
     volume |-> row[2].val \div 100,
     open |-> row[4].val,
     high |-> row[5].val,
     low |-> row[6].val,
     timestamp |-> now]

\* Which branch of fetch_stock an outcome takes: "ok", or the error box shown.
fetch_result(o) ==
    IF o.exc = "Timeout" THEN "timeout"
    ELSE IF o.exc = "ConnectionError" THEN "connection"
    ELSE IF o.exc # "none" THEN "exception"
    ELSE IF ~has_data(o.body) THEN "notfound"
    ELSE IF ~parses(o.body) THEN "exception"
    ELSE "ok"

\* --------------------------------------------------------- dict operations

\* list(self.stocks.keys())
keys(st) == [i \in 1..Len(st) |-> st[i].code]

\* code in self.stocks
contains(st, code) == \E i \in 1..Len(st) : st[i].code = code

index_of(st, code) == CHOOSE i \in 1..Len(st) : st[i].code = code

\* The faulty variant of setitem: updates the fields of an existing record
\* one group at a time instead of replacing the record.
setitem_merge(st, rec) ==
    IF contains(st, rec.code)
    THEN [st EXCEPT ![index_of(st, rec.code)] =
              [@ EXCEPT !.price = rec.price, !.change = rec.change,
                        !.timestamp = rec.timestamp]]
    ELSE Append(st, rec)

\* The faulty variant of setitem: a record the dict holds for the code is
\* kept (setdefault).
setitem_first(st, rec) ==
    IF contains(st, rec.code) THEN st ELSE Append(st, rec)

\* self.stocks[code] = stock_info
setitem(st, rec) ==
    IF contains(st, rec.code)
    THEN [st EXCEPT ![index_of(st, rec.code)] = rec]
    ELSE Append(st, rec)

\* The faulty variant of delitem: the entry stays where it is.
delitem_keeps(st, code) == st

\* del self.stocks[code]
delitem(st, code) ==
    LET i == index_of(st, code) IN SubSeq(st, 1, i - 1) \o SubSeq(st, i + 1, Len(st))

\* A dict iterator: entries passed, the size when it was made, entries expected.
NoIter == [pos |-> 0, used |-> 0, left |-> 0]
new_iter(st) == [pos |-> 0, used |-> Len(st), left |-> Len(st)]

\* next(it): "size" and "keys" are CPython's two RuntimeErrors.
iter_next(it, st) ==
    IF it.used # Len(st) THEN "size"
    ELSE IF it.pos >= Len(st) THEN "stop"
    ELSE IF it.left = 0 THEN "keys"
    ELSE "item"

iter_advance(it) == [it EXCEPT !.pos = @ + 1, !.left = @ - 1]

\* A deleted entry stays in the entry table as a hole: an iterator that has
\* passed it is one entry further in the sequence without it.
iter_after_del(it, i) == IF i <= it.pos THEN [it EXCEPT !.pos = @ - 1] ELSE it

\* ------------------------------------------------------------ the table

\* f"{x:.2f}": integer part and two decimals of a value in hundredths
fmt2(x) == LET a == IF x < 0 THEN -x ELSE x IN
           <<IF x < 0 THEN "-" ELSE "", a \div 100, a % 100>>

\* f"{x:+.2f}"
fmt_signed(x) == LET a == IF x < 0 THEN -x ELSE x IN
                 <<IF x < 0 THEN "-" ELSE "+", a \div 100, a % 100>>

\* f"{n:,}": groups of three digits
fmt_group(n) == <<n \div 1000000, (n \div 1000) % 1000, n % 1000>>

\* The values tuple of update_table, and the row's tag.
row_values(stock) ==
    <<stock.code, stock.name, fmt2(stock.price), fmt_signed(stock.change),
      fmt2(stock.open), fmt2(stock.high), fmt2(stock.low), fmt_group(stock.volume),
      stock.timestamp>>

row_tags(stock) == IF stock.change > 0 THEN "up"
                   ELSE IF stock.change < 0 THEN "down" ELSE ""

Row(id, stock) == [id |-> id, values |-> row_values(stock), tags |-> row_tags(stock)]

tree_ids(tr) == {tr[i].id : i \in 1..Len(tr)}

\* self.tree.get_children()
get_children(tr) == [i \in 1..Len(tr) |-> tr[i].id]

\* self.tree.delete(item)
tree_delete(tr, item) ==
    LET i == CHOOSE k \in 1..Len(tr) : tr[k].id = item IN
    SubSeq(tr, 1, i - 1) \o SubSeq(tr, i + 1, Len(tr))

\* Item ids are only ever compared, and a new one is larger than all before:
\* the ids in use (rows, and the get_children results threads still hold) are
\* kept numbered 1..n in their order.
ids_in_use(tr, thr) == tree_ids(tr) \cup UNION {Range(r.items) : r \in BagToSet(thr)}
rank(S, x) == Cardinality({y \in S : y <= x})
norm_tree(tr, thr) ==
    LET S == ids_in_use(tr, thr) IN [i \in 1..Len(tr) |-> [tr[i] EXCEPT !.id = rank(S, @)]]
norm_items(S, r) == [r EXCEPT !.items = [i \in 1..Len(@) |-> rank(S, @[i])]]
norm_th(tr, thr) ==
    LET S == ids_in_use(tr, thr)
        T == {norm_items(S, r) : r \in BagToSet(thr)}
    IN [x \in T |-> thr[CHOOSE r \in BagToSet(thr) : norm_items(S, r) = x]]
new_id(tr, thr) == Cardinality(ids_in_use(tr, thr)) + 1

\* self.tree.insert('', tk.END, values=values, tags=...)
tree_insert(tr, thr, stock) == Append(tr, Row(new_id(tr, thr), stock))

\* ------------------------------------------------------ the persisted list

Missing == [exists |-> FALSE, valid |-> FALSE, codes |-> <<>>, len |-> 0]

\* len(json.dumps(codes)): '[' and ']' , each code in quotes, ', ' between
RECURSIVE sum_len(_)
sum_len(cs) == IF cs = <<>> THEN 0 ELSE Len(Head(cs)) + 2 + sum_len(Tail(cs))
json_len(cs) == IF cs = <<>> THEN 2 ELSE 2 + sum_len(cs) + 2 * (Len(cs) - 1)

FileOf(cs) == [exists |-> TRUE, valid |-> TRUE, codes |-> cs, len |-> json_len(cs)]

\* open(self.config_file, 'w'): the file is created or cut to no bytes
truncated == [exists |-> TRUE, valid |-> FALSE, codes |-> <<>>, len |-> 0]

\* Leaving the with block writes the buffered text at offset 0.  Bytes another
\* writer has put beyond its end since the file was cut stay behind it.
flushed(file, cs) ==
    IF file.len > json_len(cs)
    THEN [exists |-> TRUE, valid |-> FALSE, codes |-> <<>>, len |-> file.len]
    ELSE FileOf(cs)

\* ---------------------------------------------------------------- threads

NoStock == [code |-> <<>>, name |-> <<>>, price |-> 0, change |-> 0, volume |-> 0,
            open |-> 0, high |-> 0, low |-> 0, timestamp |-> 0]

\* A thread: where it is in fetch_stock, and the locals it still reads there
\* (code: the argument; items, it, cur: of update_table; keys: of save_stocks).
Thread(pc) == [pc |-> pc, code |-> <<>>, items |-> <<>>, it |-> NoIter,
               cur |-> NoStock, keys |-> <<>>]

Running(code) == [Thread("net") EXCEPT !.code = code]

one(r) == SetToBag({r})

\* Thread r has taken a step and is r2 / has ended.
moved(thr, r, r2) == (thr (-) one(r)) (+) one(r2)
ended(thr, r) == thr (-) one(r)

\* Threads that may still be started.
free_slots(thr) == MaxThreads - BagCardinality(thr)

\* threading.Thread(target=self.fetch_stock, args=(code,)).start()
start_thread(thr, code) == thr (+) one(Running(code))

RECURSIVE start_threads(_, _)
start_threads(thr, cs) ==
    IF cs = <<>> THEN thr ELSE start_threads(start_thread(thr, Head(cs)), Tail(cs))

\* The GUI thread: the handler that runs (fn), where it is (pc), its locals.
Idle == [pc |-> "idle", fn |-> "", codes |-> <<>>, it |-> NoIter, keys |-> <<>>]
At(fn, pc) == [Idle EXCEPT !.fn = fn, !.pc = pc]

\* No handler is running: the event loop serves the Tk calls of the threads
\* and takes the user's clicks.
MainIdle == mn.pc = "idle"

\* A message box (messagebox.showwarning, showerror) is modal and is closed by
\* the user before anything else is clicked: the step that shows it records it
\* in `event`, and the next step of the program finds it closed.
NoEvent == [kind |-> "none", text |-> "", code |-> <<>>, info |-> NoStock, n |-> 0,
            before |-> <<>>]
Warning(text, code) == [NoEvent EXCEPT !.kind = "warning", !.text = text, !.code = code]
Error(text, code) == [NoEvent EXCEPT !.kind = "error", !.text = text, !.code = code]
\* Steps that show no box, recorded the same way:
\* the record `info` has been built and put into self.stocks;
Stored(info) == [NoEvent EXCEPT !.kind = "stored", !.code = info.code, !.info = info]
\* add_stock has started a fetch of `code` (and emptied the entry, line 154);
Started(code) == [NoEvent EXCEPT !.kind = "started", !.code = code]
\* delete_selected has handled one selected row and removed n entries;
Deleted(code, n) == [NoEvent EXCEPT !.kind = "deleted", !.code = code, !.n = n]
\* clear_all has emptied the dict;
Cleared == [NoEvent EXCEPT !.kind = "cleared"]
\* refresh_all_stocks has been entered with the dict holding `before`;
Refreshing(before) == [NoEvent EXCEPT !.kind = "refresh", !.before = before]
\* load_stocks has started a fetch of `code`.
Loaded(code) == [NoEvent EXCEPT !.kind = "loaded", !.code = code]

\* The history variable is written only in the specifications that record
\* (hist.on); a run that records ends when MaxLog events are recorded.
room == hist.on => Len(hist.log) < MaxLog
recorded(e) == IF hist.on THEN [hist EXCEPT !.log = Append(@, e)] ELSE hist

sched_vars == <<auto_refresh_var, auto_refresh_active, refresh_interval,
                interval_var, timers, spins>>

\* ------------------------------------------------- fetch_stock (a thread)

\* Lines 158-179: the request returns data and the record replaces or enters
\* self.stocks.
FetchStore(r) ==
    /\ r.pc = "net"
    /\ \E o \in Outcomes(r.code) :
         /\ fetch_result(o) = "ok"
         /\ LET info == stock_info(r.code, o.body, o.now) IN
            /\ stocks' = setitem(stocks, info)
            /\ event' = Stored(info)
    /\ room /\ hist' = recorded(event')
    /\ th' = moved(th, r, Thread("update_table"))
    /\ UNCHANGED <<tree, config_file, mn, sched_vars>>

\* The faulty variant of FetchFail: a failed fetch drops the record the dict
\* holds for the code.
FetchFailDrops(r) ==
    /\ r.pc = "net"
    /\ \E o \in Outcomes(r.code) :
         /\ fetch_result(o) # "ok"
         /\ event' = Error(fetch_result(o), r.code)
    /\ room /\ hist' = recorded(event')
    /\ th' = ended(th, r)
    /\ stocks' = IF contains(stocks, r.code) THEN delitem(stocks, r.code) ELSE stocks
    /\ UNCHANGED <<tree, config_file, mn, sched_vars>>

\* The faulty variant of FetchFail: the failure of one fetch ends the other
\* fetches in flight with it.
FetchFailAborts(r) ==
    /\ r.pc = "net"
    /\ \E o \in Outcomes(r.code) :
         /\ fetch_result(o) # "ok"
         /\ event' = Error(fetch_result(o), r.code)
    /\ room /\ hist' = recorded(event')
    /\ th' = [x \in {y \in BagToSet(th) : y.pc # "net"} |-> th[x]]
    /\ UNCHANGED <<stocks, tree, config_file, mn, sched_vars>>

\* Lines 182-189: no data, or an exception of the request or of the parsing:
\* an error box and nothing else; the thread ends.
FetchFail(r) ==
    /\ r.pc = "net"
    /\ \E o \in Outcomes(r.code) :
         /\ fetch_result(o) # "ok"
         /\ event' = Error(fetch_result(o), r.code)
    /\ room /\ hist' = recorded(event')
    /\ th' = ended(th, r)
    /\ UNCHANGED <<stocks, tree, config_file, mn, sched_vars>>

\* Line 230: the rows are gone and the loop over self.stocks.items() of a
\* thread's update_table is about to be entered.
entered == Thread("iter")

\* Line 230: next() on the iterator of thread r: the threads afterwards.  A
\* RuntimeError lands in fetch_stock's "except Exception" (line 188): the
\* error box is shown, save_stocks is not reached, the thread ends.
after_next(thr, r, st) ==
    LET n == iter_next(r.it, st) IN
    IF n = "item"
    THEN moved(thr, r, [Thread("insert") EXCEPT !.it = iter_advance(r.it),
                                                 !.cur = st[r.it.pos + 1]])
    ELSE IF n = "stop"
    THEN moved(thr, r, Thread("save"))
    ELSE ended(thr, r)

event_after_next(r, st) ==
    IF iter_next(r.it, st) \in {"size", "keys"}
    THEN Error("exception", <<>>) ELSE NoEvent

\* Line 226: self.tree.get_children(); with no rows the loop over the stocks
\* is entered at once.
TableChildren(r) ==
    /\ r.pc = "update_table"
    /\ MainIdle
    /\ th' = IF tree = <<>>
             THEN moved(th, r, entered)
             ELSE moved(th, r, [Thread("delete") EXCEPT !.items = get_children(tree)])
    /\ event' = NoEvent
    /\ UNCHANGED <<stocks, tree, config_file, mn, sched_vars, hist>>

\* Line 227: self.tree.delete(item); after the last one the loop over the
\* stocks is entered.  A TclError when the item is gone (line 188: error box,
\* the thread ends).
TableDelete(r) ==
    /\ r.pc = "delete"
    /\ MainIdle
    /\ LET item == Head(r.items)
           rest == Tail(r.items)
       IN IF item \in tree_ids(tree)
          THEN LET tr == tree_delete(tree, item)
                   thr == IF rest = <<>>
                          THEN moved(th, r, entered)
                          ELSE moved(th, r, [r EXCEPT !.items = rest])
               IN /\ tree' = norm_tree(tr, thr)
                  /\ th' = norm_th(tr, thr)
                  /\ event' = NoEvent
          ELSE LET thr == ended(th, r)
               IN /\ tree' = norm_tree(tree, thr)
                  /\ th' = norm_th(tree, thr)
                  /\ event' = Error("exception", <<>>)
    /\ UNCHANGED <<stocks, config_file, mn, sched_vars, hist>>

\* Line 230: the iterator is made and the first next() follows with no other
\* thread in between (GET_ITER, FOR_ITER).
TableFirst(r) ==
    /\ r.pc = "iter"
    /\ LET r1 == [r EXCEPT !.it = new_iter(stocks)]
       IN th' = after_next(moved(th, r, r1), r1, stocks)
    /\ event' = NoEvent
    /\ UNCHANGED <<stocks, tree, config_file, mn, sched_vars, hist>>

\* Lines 231-252 and 230 again: the row is inserted, then the next entry taken.
TableInsert(r) ==
    /\ r.pc = "insert"
    /\ MainIdle
    /\ tree' = tree_insert(tree, th, r.cur)
    /\ th' = after_next(th, r, stocks)
    /\ event' = event_after_next(r, stocks)
    /\ UNCHANGED <<stocks, config_file, mn, sched_vars, hist>>

\* Lines 311-312: the file is opened for writing and the keys are listed.
SaveOpen(r) ==
    /\ r.pc = "save"
    /\ config_file' = truncated
    /\ th' = moved(th, r, [Thread("close") EXCEPT !.keys = keys(stocks)])
    /\ event' = NoEvent
    /\ UNCHANGED <<stocks, tree, mn, sched_vars, hist>>

\* Line 312, leaving the with block: the text reaches the file; the thread ends.
SaveClose(r) ==
    /\ r.pc = "close"
    /\ config_file' = flushed(config_file, r.keys)
    /\ th' = ended(th, r)
    /\ event' = NoEvent
    /\ UNCHANGED <<stocks, tree, mn, sched_vars, hist>>

\* ----------------------------------------------- handlers of the GUI thread

\* The faulty variant of add_check: no look into the dict.
add_check_any(st, code) ==
    IF code = <<>> THEN "empty"
    ELSE IF ~isdigit(code) \/ Len(code) # 4 THEN "invalid"
    ELSE "ok"

\* Lines 137-148: the warning add_stock shows for the code, or "ok".
add_check(st, code) ==
    IF code = <<>> THEN "empty"
    ELSE IF ~isdigit(code) \/ Len(code) # 4 THEN "invalid"
    ELSE IF contains(st, code) THEN "duplicate"
    ELSE "ok"

\* The faulty variant of add_stock: the code is entered into the dict, with
\* nothing but its code, when the fetch is started.
add_stock_eager(input) ==
    LET code == upper(strip(input))
        check == add_check(stocks, code)
    IN
    /\ MainIdle
    /\ IF check # "ok"
       THEN event' = Warning(check, code) /\ th' = th /\ stocks' = stocks
       ELSE /\ free_slots(th) > 0
            /\ th' = start_thread(th, code)
            /\ stocks' = setitem(stocks, [NoStock EXCEPT !.code = code])
            /\ event' = Started(code)
    /\ room /\ hist' = recorded(event')
    /\ UNCHANGED <<tree, config_file, mn, sched_vars>>

\* Lines 134-154.
add_stock(input) ==
    LET code == upper(strip(input))
        check == add_check(stocks, code)
    IN
    /\ MainIdle
    /\ IF check # "ok"
       THEN event' = Warning(check, code) /\ th' = th
       ELSE /\ free_slots(th) > 0
            /\ th' = start_thread(th, code)
            /\ event' = Started(code)
    /\ room /\ hist' = recorded(event')
    /\ UNCHANGED <<stocks, tree, config_file, mn, sched_vars>>

\* Lines 193-199, called by the handler fn: refresh_all_stocks returns on an
\* empty dict; else it makes the iterator of its loop, takes the first key
\* (no other thread runs between the two) and starts the thread for it.
refresh_all_stocks(fn) ==
    IF stocks = <<>>
    THEN mn' = mn /\ th' = th /\ event' = NoEvent /\ hist' = hist
    ELSE /\ free_slots(th) > 0
         /\ mn' = [At(fn, "refresh") EXCEPT !.it = iter_advance(new_iter(stocks))]
         /\ th' = start_thread(th, stocks[1].code)
         /\ event' = Refreshing(stocks)
         /\ room /\ hist' = recorded(event')

\* The refresh button (line 76).
RefreshClicked ==
    /\ MainIdle
    /\ refresh_all_stocks("refresh_all_stocks")
    /\ UNCHANGED <<stocks, tree, config_file, sched_vars>>

\* Lines 196-199: a further turn of the loop over self.stocks.keys().  A RuntimeError
\* of the iterator ends the handler; after the loop schedule_refresh (line 221)
\* arms the timer.
RefreshNext ==
    /\ mn.pc = "refresh"
    /\ LET r == iter_next(mn.it, stocks) IN
       IF r = "item"
       THEN /\ free_slots(th) > 0
            /\ th' = start_thread(th, stocks[mn.it.pos + 1].code)
            /\ mn' = [mn EXCEPT !.it = iter_advance(@)]
            /\ timers' = timers
       ELSE /\ th' = th
            /\ mn' = Idle
            /\ timers' = IF r = "stop" /\ mn.fn = "schedule_refresh"
                         THEN Append(timers, refresh_interval) ELSE timers
    /\ event' = NoEvent
    /\ UNCHANGED <<stocks, tree, config_file, auto_refresh_var,
                   auto_refresh_active, refresh_interval, interval_var, spins, hist>>

\* The values[0] of the selected rows, in table order.
RECURSIVE selected_codes(_, _, _)
selected_codes(tr, sel, i) ==
    IF i > Len(tr) THEN <<>>
    ELSE (IF i \in sel THEN <<tr[i].values[1]>> ELSE <<>>) \o selected_codes(tr, sel, i + 1)

\* Lines 260-267: the user has selected the rows `sel` and clicks delete.
delete_selected(sel) ==
    /\ MainIdle
    /\ IF sel = {}
       THEN event' = Warning("noselection", <<>>) /\ mn' = mn
       ELSE /\ event' = NoEvent
            /\ mn' = [At("delete_selected", "del") EXCEPT
                          !.codes = selected_codes(tree, sel, 1)]
    /\ UNCHANGED <<stocks, tree, config_file, th, sched_vars, hist>>

\* The threads after entry i of the dict has been deleted: their iterators
\* are where they were in the entry table.
RECURSIVE held_after_del(_, _)
held_after_del(thr, i) ==
    IF thr = EmptyBag THEN EmptyBag
    ELSE LET r == CHOOSE x \in BagToSet(thr) : TRUE
         IN held_after_del(thr (-) one(r), i)
            (+) one([r EXCEPT !.it = iter_after_del(@, i)])

\* The faulty variant of DeleteNext: del without the test of line 268, a
\* KeyError for a code the dict does not hold ends the handler.
DeleteNextUnchecked ==
    /\ mn.pc = "del"
    /\ LET code == Head(mn.codes) IN
       IF contains(stocks, code)
       THEN /\ stocks' = delitem(stocks, code)
            /\ th' = held_after_del(th, index_of(stocks, code))
            /\ event' = Deleted(code, 1)
            /\ mn' = IF Tail(mn.codes) = <<>> THEN At(mn.fn, "table")
                     ELSE [mn EXCEPT !.codes = Tail(@)]
       ELSE /\ UNCHANGED <<stocks, th>>
            /\ event' = Deleted(code, 0)
            /\ mn' = Idle
    /\ room /\ hist' = recorded(event')
    /\ UNCHANGED <<tree, config_file, sched_vars>>

\* Lines 268-269 for one selected row; after the last, update_table is called.
DeleteNext ==
    /\ mn.pc = "del"
    /\ LET code == Head(mn.codes) IN
       IF contains(stocks, code)
       THEN /\ stocks' = delitem(stocks, code)
            /\ th' = held_after_del(th, index_of(stocks, code))
            /\ event' = Deleted(code, 1)
       ELSE /\ UNCHANGED <<stocks, th>>
            /\ event' = Deleted(code, 0)
    /\ mn' = IF Tail(mn.codes) = <<>> THEN At(mn.fn, "table")
             ELSE [mn EXCEPT !.codes = Tail(@)]
    /\ room /\ hist' = recorded(event')
    /\ UNCHANGED <<tree, config_file, sched_vars>>

\* Lines 276-277: the user confirms, the dict is emptied.
clear_all ==
    /\ MainIdle
    /\ stocks' = <<>>
    /\ mn' = At("clear_all", "table")
    /\ event' = Cleared
    /\ room /\ hist' = recorded(event')
    /\ UNCHANGED <<tree, config_file, th, sched_vars>>

\* Lines 226-227 in the GUI thread: every row is deleted.
MainTable ==
    /\ mn.pc = "table"
    /\ tree' = <<>>
    /\ th' = norm_th(<<>>, th)
    /\ mn' = At(mn.fn, "iter")
    /\ event' = NoEvent
    /\ UNCHANGED <<stocks, config_file, sched_vars, hist>>

\* Lines 230-252 in the GUI thread: one turn of the loop, the first one with
\* the iterator just made.  A RuntimeError of the iterator ends the handler
\* before save_stocks.
MainNext ==
    /\ mn.pc \in {"iter", "next"}
    /\ LET it == IF mn.pc = "iter" THEN new_iter(stocks) ELSE mn.it
           r == iter_next(it, stocks)
       IN
       IF r = "item"
       THEN /\ tree' = tree_insert(tree, th, stocks[it.pos + 1])
            /\ mn' = [At(mn.fn, "next") EXCEPT !.it = iter_advance(it)]
       ELSE /\ tree' = tree
            /\ mn' = IF r = "stop" THEN At(mn.fn, "save") ELSE Idle
    /\ event' = NoEvent
    /\ UNCHANGED <<stocks, config_file, th, sched_vars, hist>>

\* Lines 311-312 in the GUI thread.
MainSaveOpen ==
    /\ mn.pc = "save"
    /\ config_file' = truncated
    /\ mn' = [At(mn.fn, "close") EXCEPT !.keys = keys(stocks)]
    /\ event' = NoEvent
    /\ UNCHANGED <<stocks, tree, th, sched_vars, hist>>

\* Line 312 in the GUI thread, leaving the with block; the handler returns.
MainSaveClose ==
    /\ mn.pc = "close"
    /\ config_file' = flushed(config_file, mn.keys)
    /\ mn' = Idle
    /\ event' = NoEvent
    /\ UNCHANGED <<stocks, tree, th, sched_vars, hist>>

\* ---------------------------------------------------------- auto refresh

\* int(s) for a text of digits
RECURSIVE digits_value(_)
digits_value(s) ==
    IF s = <<>> THEN 0
    ELSE 10 * digits_value(SubSeq(s, 1, Len(s) - 1))
         + (CHOOSE d \in 0..9 : ToString(d) = s[Len(s)])

\* "%.0f" of a natural number
RECURSIVE digits_of(_)
digits_of(n) == IF n < 10 THEN <<ToString(n)>> ELSE Append(digits_of(n \div 10), ToString(n % 10))

\* What the spinbox may hold: its start value and what the user may type.
T30 == <<"3", "0">>
IntervalTexts == {T30, <<"9", "9", "9">>, <<"0">>, <<"a">>}

\* The faulty variant of spun: a spinbox without from_ and to.
spun_unbounded(text, dir) ==
    LET v == IF isdigit(text) THEN digits_value(text) + dir ELSE 5
    IN IF v < 0 THEN <<"-">> \o digits_of(-v) ELSE digits_of(v)

\* The spinbox of lines 91-98 (from_=5, to=300): a click on an arrow puts the
\* number in the box, or 5 when there is none, one up or down within 5..300.
spun(text, dir) ==
    LET v == IF isdigit(text) THEN digits_value(text) + dir ELSE 5
        w == IF v < 5 THEN 5 ELSE IF v > 300 THEN 300 ELSE v
    IN digits_of(w)

\* Lines 219-221 with the variable's value `enabled`: refresh_all_stocks, then
\* root.after(interval, ...).  On an empty dict refresh_all_stocks returns at once.
schedule_refresh(enabled, interval, pending) ==
    IF enabled
    THEN /\ Len(pending) < MaxTimers
         /\ refresh_all_stocks("schedule_refresh")
         /\ timers' = IF stocks = <<>> THEN Append(pending, interval) ELSE pending
    ELSE mn' = mn /\ th' = th /\ timers' = pending /\ event' = NoEvent /\ hist' = hist

\* Lines 201-206: the checkbox is clicked (Tk flips the variable first).
toggle_auto_refresh ==
    /\ MainIdle
    /\ auto_refresh_var' = ~auto_refresh_var
    /\ IF auto_refresh_var'
       THEN /\ schedule_refresh(TRUE, refresh_interval, timers)
            /\ auto_refresh_active' = auto_refresh_active
       ELSE /\ auto_refresh_active' = FALSE
            /\ event' = NoEvent
            /\ UNCHANGED <<mn, th, timers, hist>>
    /\ UNCHANGED <<stocks, tree, config_file, refresh_interval,
                   interval_var, spins>>

\* The user types into the spinbox: no command runs.
IntervalTyped(text) ==
    /\ MainIdle
    /\ text # interval_var
    /\ interval_var' = text
    /\ event' = NoEvent
    /\ UNCHANGED <<stocks, tree, config_file, th, mn, auto_refresh_var,
                   auto_refresh_active, refresh_interval, timers, spins, hist>>

\* Lines 208-215: an arrow of the spinbox is clicked; Tk sets the text and
\* runs the command.
update_refresh_interval(dir) ==
    /\ MainIdle
    /\ spins < MaxSpins
    /\ spins' = spins + 1
    /\ interval_var' = spun(interval_var, dir)
    /\ IF isdigit(interval_var')
       THEN /\ refresh_interval' = digits_value(interval_var') * 1000
            /\ schedule_refresh(auto_refresh_var, refresh_interval', timers)
       ELSE event' = NoEvent /\ UNCHANGED <<refresh_interval, mn, th, timers, hist>>
    /\ UNCHANGED <<stocks, tree, config_file, auto_refresh_var,
                   auto_refresh_active>>

remove_at(s, i) == SubSeq(s, 1, i - 1) \o SubSeq(s, i + 1, Len(s))

\* A pending root.after callback comes due: schedule_refresh runs.
TimerFired(i) ==
    /\ MainIdle
    /\ i \in 1..Len(timers)
    /\ schedule_refresh(auto_refresh_var, refresh_interval, remove_at(timers, i))
    /\ UNCHANGED <<stocks, tree, config_file, auto_refresh_var,
                   auto_refresh_active, refresh_interval, interval_var, spins>>

\* ------------------------------------------------------------ the start

\* What the file may hold when the program starts: nothing, no JSON, or a
\* list the program has saved.
CodeLists == {<<>>} \cup {<<c>> : c \in Codes}
             \cup {<<p[1], p[2]>> : p \in {q \in Codes \X Codes : q[1] # q[2]}}
InitFiles == {Missing, truncated} \cup {FileOf(cs) : cs \in CodeLists}

\* The faulty variant of load_stocks: only the first code of the file is
\* fetched.
load_stocks_first(file) ==
    IF file.exists /\ file.valid /\ file.codes # <<>>
    THEN start_thread(EmptyBag, Head(file.codes))
    ELSE EmptyBag

\* Lines 316-327: one thread per code of the file; nothing on a missing file
\* or on one json.load rejects.
load_stocks(file) ==
    IF file.exists /\ file.valid
    THEN start_threads(EmptyBag, file.codes)
    ELSE EmptyBag

NoHist == [on |-> FALSE, log |-> <<>>]

\* Lines 39-50, with one of `files` at self.config_file.
started(files) ==
    /\ stocks = <<>>
    /\ tree = <<>>
    /\ config_file \in files
    /\ th = load_stocks(config_file)
    /\ mn = Idle
    /\ event = NoEvent
    /\ auto_refresh_var = FALSE
    /\ auto_refresh_active = FALSE
    /\ refresh_interval = 30000
    /\ interval_var = T30
    /\ timers = <<>>
    /\ spins = 0

Init == started(InitFiles) /\ hist = NoHist

ThreadStep ==
    \E r \in BagToSet(th) :
        \/ FetchStore(r)
        \/ FetchFail(r)
        \/ TableChildren(r)
        \/ TableDelete(r)
        \/ TableFirst(r)
        \/ TableInsert(r)
        \/ SaveOpen(r)
        \/ SaveClose(r)

MainStep ==
    \/ DeleteNext
    \/ MainTable
    \/ MainNext
    \/ MainSaveOpen
    \/ MainSaveClose

\* The program with a user who adds, refreshes, deletes and clears.
Next ==
    \/ ThreadStep
    \/ MainStep
    \/ \E input \in Inputs : add_stock(input)
    \/ RefreshClicked
    \/ RefreshNext
    \/ \E sel \in SUBSET (1..Len(tree)) : delete_selected(sel)
    \/ clear_all

Spec == Init /\ [][Next]_vars

\* The program with a user who works the auto-refresh controls, started with
\* no saved list or with one code saved.
InitSched == started({Missing, FileOf(<<C2330>>)}) /\ hist = NoHist

NextSched ==
    \/ ThreadStep
    \/ RefreshNext
    \/ toggle_auto_refresh
    \/ \E text \in IntervalTexts : IntervalTyped(text)
    \/ \E dir \in {-1, 1} : update_refresh_interval(dir)
    \/ \E i \in 1..MaxTimers : TimerFired(i)

SpecSched == InitSched /\ [][NextSched]_vars

\* The program started on a list of two codes, with a user who does nothing
\* but click the auto-refresh checkbox.
InitCycle == started({FileOf(<<C0050, C2330>>)}) /\ hist = NoHist

NextCycle ==
    \/ ThreadStep
    \/ RefreshNext
    \/ toggle_auto_refresh
    \/ \E i \in 1..MaxTimers : TimerFired(i)

SpecCycle == InitCycle /\ [][NextCycle]_vars

\* The program started on a list of two codes, with a user who does nothing
\* but click the refresh button while no fetch is in flight; what happens is
\* recorded.
Recording == [on |-> TRUE, log |-> <<>>]

InitRefresh == started({FileOf(<<C0050, C2330>>)}) /\ hist = Recording

RefreshQuiet == th = EmptyBag /\ RefreshClicked

NextRefresh ==
    \/ ThreadStep
    \/ RefreshQuiet
    \/ RefreshNext

SpecRefresh == InitRefresh /\ [][NextRefresh]_vars

\* The program started without a file, with a user who adds and deletes;
\* what happens is recorded.
InitReadd == started({Missing}) /\ hist = Recording

NextReadd ==
    \/ ThreadStep
    \/ MainStep
    \/ \E code \in Codes : add_stock(code)
    \/ \E sel \in SUBSET (1..Len(tree)) : delete_selected(sel)

SpecReadd == InitReadd /\ [][NextReadd]_vars

\* The program started on any file, with a user who does nothing; the codes
\* load_stocks has read from the file and what becomes of their fetches is
\* recorded.
loaded_codes(file) == IF file.exists /\ file.valid THEN file.codes ELSE <<>>

InitStart ==
    /\ started(InitFiles)
    /\ hist = [on |-> TRUE,
               log |-> [i \in 1..Len(loaded_codes(config_file)) |->
                           Loaded(loaded_codes(config_file)[i])]]

NextStart == ThreadStep

SpecStart == InitStart /\ [][NextStart]_vars

\* The program started on a list of one code, with a user who refreshes,
\* deletes and clears and never adds; what happens is recorded.
InitTrack == started({FileOf(<<C0050>>)}) /\ hist = Recording

NextTrack ==
    \/ ThreadStep
    \/ MainStep
    \/ RefreshClicked
    \/ RefreshNext
    \/ \E sel \in SUBSET (1..Len(tree)) : delete_selected(sel)
    \/ clear_all

SpecTrack == InitTrack /\ [][NextTrack]_vars

\* The program started without a file, with a user who adds up to three
\* codes and clicks the refresh button.
InitSnap == started({Missing}) /\ hist = NoHist

NextSnap ==
    \/ ThreadStep
    \/ \E code \in Codes \cup {C2454} : add_stock(code)
    \/ RefreshClicked
    \/ RefreshNext

SpecSnap == InitSnap /\ [][NextSnap]_vars

\* ================================================================ the store

\* The records a fetch of the code that succeeds may build.
quotes(code) ==
    {stock_info(code, o.body, o.now) : o \in {x \in Outcomes(code) : fetch_result(x) = "ok"}}

\* C1: in every reachable state the store holds at most one record per code
\* and every record in it is one whole record some fetch has built, never a
\* mix of two; and when a fetch that succeeds has written, the record the
\* store holds for its code equals the record that fetch built, in every field.
C1_OneWholeRecordPerCode ==
    /\ \A i, j \in 1..Len(stocks) : stocks[i].code = stocks[j].code => i = j
    /\ \A i \in 1..Len(stocks) : stocks[i] \in quotes(stocks[i].code)
    /\ event.kind = "stored" =>
          /\ contains(stocks, event.code)
          /\ stocks[index_of(stocks, event.code)] = event.info

\* A fetch of 0050 has just replaced the record of 0050, which is the first of
\* two entries and so was in the store before the other one came.
C1_Replaced ==
    /\ event.kind = "stored" /\ event.code = C0050
    /\ Len(stocks) = 2 /\ stocks[1].code = C0050
    /\ event.info.name = NameTSMC

complete(rec) ==
    /\ DOMAIN rec = DOMAIN NoStock
    /\ rec.code \in Codes
    /\ rec.name # <<>>
    /\ rec.timestamp > 0
    /\ rec.low <= rec.price /\ rec.price <= rec.high

\* C3: a code enters the store only in the step in which a fetch for it
\* succeeds; the step of add_stock (a warning, or a fetch started) never
\* changes the store; and every record in the store is a complete quote.
C3_EntersOnlyOnSuccess ==
    /\ [](\A i \in 1..Len(stocks) : complete(stocks[i]))
    /\ [][ /\ \A c \in Codes :
               (contains(stocks', c) /\ ~contains(stocks, c))
                   => (event'.kind = "stored" /\ event'.code = c)
           /\ event'.kind \in {"warning", "started"} => stocks' = stocks ]_vars

\* add_stock has just started the fetch of a code: the code is not in the store.
C3_AddedNotYetStored ==
    /\ event.kind = "started"
    /\ ~contains(stocks, event.code)
    /\ \E r \in BagToSet(th) : r.pc = "net" /\ r.code = event.code

\* C4: an add request for a code that is in the store starts no fetch, shows
\* the duplicate warning and leaves the store as it was: add_stock starts a
\* fetch only for a code the store does not hold, and the step that shows the
\* duplicate warning is for a code the store holds and changes neither the
\* threads nor the store.
C4_DuplicateAddRejected ==
    [][ /\ event'.kind = "started" => ~contains(stocks, event'.code)
        /\ (event'.kind = "warning" /\ event'.text = "duplicate")
              => (contains(stocks, event'.code) /\ th' = th /\ stocks' = stocks)
        /\ \A c \in Codes :
              (MainIdle /\ mn' = mn /\ contains(stocks, c)
                 /\ event'.kind \in {"warning", "started"} /\ event'.code = c)
              => (event' = Warning("duplicate", c) /\ th' = th) ]_vars

\* The duplicate warning has just been shown for a code of the store while a
\* refresh fetch of it is in flight.
C4_DuplicateWarned ==
    /\ event.kind = "warning" /\ event.text = "duplicate"
    /\ contains(stocks, event.code)
    /\ th # EmptyBag

\* The place in the history of the last entry into refresh_all_stocks (0: none).
last_refresh ==
    LET R == {k \in 1..Len(hist.log) : hist.log[k].kind = "refresh"}
    IN IF R = {} THEN 0 ELSE CHOOSE k \in R : \A j \in R : j <= k

\* The places of the fetches of `code` that have ended since place k.
ended_since(k, code) ==
    {j \in (k + 1)..Len(hist.log) :
        hist.log[j].kind \in {"stored", "error"} /\ hist.log[j].code = code}

\* Every fetch a refresh-all has started has ended.
refresh_done ==
    /\ last_refresh > 0
    /\ MainIdle
    /\ \A r \in BagToSet(th) : r.pc # "net"

\* C5: when a refresh-all over the N codes of the store has been called with
\* no other fetch in flight and its fetches have all ended, in whatever
\* order: the store holds the same N codes in the same order; the fetch of
\* each of them has ended exactly once, whatever became of the others; a code
\* whose fetch succeeded holds the record that fetch built, a code whose fetch
\* failed (lines 159-177, 182-189) holds the record it held before.
C5_RefreshAllPartialFailure ==
    refresh_done =>
        LET k == last_refresh
            before == hist.log[k].before
        IN /\ keys(stocks) = keys(before)
           /\ \A i \in 1..Len(before) :
                 LET E == ended_since(k, before[i].code) IN
                 /\ Cardinality(E) = 1
                 /\ \A j \in E :
                       stocks[i] = IF hist.log[j].kind = "stored"
                                   THEN hist.log[j].info ELSE before[i]

\* A refresh-all over two codes has ended: the fetch of 2330 failed first and
\* left its record, the fetch of 0050 then replaced the record of 0050 by
\* another one.
C5_OneFailedOneUpdated ==
    /\ refresh_done
    /\ LET k == last_refresh
           before == hist.log[k].before
       IN /\ keys(before) = <<C0050, C2330>>
          /\ Len(hist.log) = k + 2
          /\ hist.log[k + 1].kind = "error" /\ hist.log[k + 1].code = C2330
          /\ hist.log[k + 2].kind = "stored" /\ hist.log[k + 2].code = C0050
          /\ hist.log[k + 2].info # before[1]
          /\ stocks = <<hist.log[k + 2].info, before[2]>>

\* C6: the view clear_all takes of the store after it has emptied it is
\* empty, whatever fetches are in flight: the table it has redrawn has no
\* row, and the list of codes it is writing to the file is empty.
C6_ClearThenSnapshotEmpty ==
    /\ (mn.fn = "clear_all" /\ mn.pc \in {"save", "close"}) => tree = <<>>
    /\ (mn.fn = "clear_all" /\ mn.pc = "close") => mn.keys = <<>>

\* An add request recorded at place k of the history (a fetch started, or a
\* warning), and whether the store held the code then by what is recorded:
\* the last of its records written or deleted before k was written.
is_add(k) == hist.log[k].kind \in {"started", "warning"}
held_at(k) ==
    LET c == hist.log[k].code
        W == {j \in 1..(k - 1) : /\ hist.log[j].code = c
                                  /\ hist.log[j].kind \in {"stored", "deleted"}}
    IN W # {} /\ hist.log[CHOOSE j \in W : \A i \in W : i <= j].kind = "stored"

\* C7: add_stock treats a code that was added and deleted as it treats a
\* code never seen: whenever the code's record has been deleted and none
\* written since, or none was ever written, the add request starts a fetch
\* and shows no duplicate warning; and when the fetch succeeds, the store
\* holds the code with the record that fetch built.
C7_ReaddLikeFirstAdd ==
    /\ \A k \in 1..Len(hist.log) :
          (is_add(k) /\ ~held_at(k)) => hist.log[k].kind = "started"
    /\ (hist.log # <<>> /\ event.kind = "stored") =>
          /\ hist.log[Len(hist.log)] = event
          /\ contains(stocks, event.code)
          /\ stocks[index_of(stocks, event.code)] = event.info

\* 0050 has been added, stored, deleted and added again, and the second
\* fetch has just stored its record.
C7_StoredAgain ==
    /\ Len(hist.log) = 5
    /\ hist.log[1] = Started(C0050)
    /\ hist.log[2].kind = "stored"
    /\ hist.log[3] = Deleted(C0050, 1)
    /\ hist.log[4] = Started(C0050)
    /\ hist.log[5].kind = "stored" /\ event = hist.log[5]
    /\ keys(stocks) = <<C0050>>

\* C8: deleting is idempotent.  The step of delete_selected for one selected
\* code removes the one entry of a code the store holds, and for a code the
\* store does not hold it removes nothing, changes nothing and is no error
\* (the handler goes on); after either the store does not hold the code, so
\* a second delete of the code with no fetch stored in between removes
\* nothing.
C8_DeleteIdempotent ==
    /\ [](event.kind = "deleted" => ~contains(stocks, event.code))
    /\ [][ event'.kind = "deleted" =>
             /\ mn'.fn = "delete_selected" /\ mn'.pc \in {"del", "table"}
             /\ Len(stocks') = Len(stocks) - event'.n
             /\ IF contains(stocks, event'.code)
                THEN event'.n = 1 /\ stocks' = delitem(stocks, event'.code)
                ELSE event'.n = 0 /\ stocks' = stocks /\ th' = th ]_vars

\* Two rows of the same code were selected: the step for the first removed
\* the entry, the step for the second has just removed nothing.
C8_SecondDeleteRemovedNone ==
    /\ event.kind = "deleted" /\ event.n = 0
    /\ mn.fn = "delete_selected"
    /\ Len(tree) >= 2 /\ tree[1].values[1] = event.code /\ tree[2].values[1] = event.code

\* C9: at most one refresh timer is pending at any time, whatever the
\* checkbox has been through (the spinbox not touched).
C9_AtMostOneTimer == spins = 0 => Len(timers) <= 1

\* C10: a click on the spinbox while auto-refresh is enabled leaves at most
\* one timer pending, and with nothing to refresh first exactly one, armed
\* with the new interval.
C10_IntervalChangeReplacesTimer ==
    [][ (spins' # spins /\ auto_refresh_var) =>
          /\ Len(timers') <= 1
          /\ stocks = <<>> => timers' = <<refresh_interval'>> ]_vars

\* ============================================================ auto refresh

\* C11: unticking the checkbox cancels the pending timer: while auto-refresh
\* is disabled no timer is pending.
C11_DisableCancelsTimer == ~auto_refresh_var => timers = <<>>

\* C12: ticking the checkbox runs one refresh-all and then arms one timer with
\* the stored interval, and so does every timer that fires while the checkbox
\* is ticked: with nothing to refresh the timer is armed in the same step;
\* else the loop of refresh_all_stocks is entered, and when schedule_refresh
\* returns a fetch has been started for every code and the timer is armed.
C12_EnableRefreshesAndArms ==
    [][ /\ (MainIdle /\ auto_refresh_var' /\ ~auto_refresh_var)
              => IF stocks = <<>> THEN timers' = Append(timers, refresh_interval)
                 ELSE mn'.fn = "schedule_refresh" /\ mn'.pc = "refresh"
        /\ (MainIdle /\ auto_refresh_var /\ Len(timers') < Len(timers))
              => (mn'.fn = "schedule_refresh" /\ mn'.pc = "refresh")
        /\ (mn.fn = "schedule_refresh" /\ mn'.pc = "idle")
              => /\ mn.it.pos = mn.it.used
                 /\ timers' = Append(timers, refresh_interval) ]_vars

\* C13: the stored interval is within 5000..300000 ms in every reachable
\* state, whatever has been typed into the spinbox, and so is the delay of
\* every timer armed.
C13_IntervalInRange ==
    /\ refresh_interval >= 5000 /\ refresh_interval <= 300000
    /\ \A i \in 1..Len(timers) : timers[i] >= 5000 /\ timers[i] <= 300000

\* 0 was typed into the spinbox and its down arrow clicked with auto-refresh
\* enabled: the interval is the least one allowed and a timer is armed with it.
C13_ClampedToLeast ==
    /\ interval_var = <<"5">>
    /\ refresh_interval = 5000
    /\ timers # <<>> /\ timers[Len(timers)] = 5000

\* ============================================================= two fetches

\* The events that wrote or removed the record of a code.
writes_of(code) ==
    {k \in 1..Len(hist.log) : /\ hist.log[k].code = code
                               /\ hist.log[k].kind \in {"stored", "deleted"}}

last_of(S) == CHOOSE j \in S : \A i \in S : i <= j

\* C17: of the fetches of one code that succeed, the one that completes last
\* leaves its record: while the last write recorded for a code is a store,
\* the dict holds the record that store built, in one entry.
C17_LastCompletedWins ==
    \A c \in Codes :
        (writes_of(c) # {} /\ hist.log[last_of(writes_of(c))].kind = "stored") =>
            /\ Cardinality({i \in 1..Len(stocks) : stocks[i].code = c}) = 1
            /\ stocks[index_of(stocks, c)] = hist.log[last_of(writes_of(c))].info

\* 0050 was added twice before either fetch returned; both fetches have
\* stored, with different records, and the dict holds the second one.
C17_TwoStoredSecondHeld ==
    /\ Len(hist.log) = 4
    /\ hist.log[1] = Started(C0050) /\ hist.log[2] = Started(C0050)
    /\ hist.log[3].kind = "stored" /\ hist.log[4].kind = "stored"
    /\ hist.log[3].info # hist.log[4].info
    /\ stocks = <<hist.log[4].info>>

\* ======================================================= the persisted list

\* C18: whenever no fetch runs and no handler runs, the file holds the keys
\* of the dict, in order (no file standing for the empty list).
C18_QuiescentFileIsStore ==
    (th = EmptyBag /\ MainIdle) =>
        /\ config_file.exists => config_file.valid
        /\ loaded_codes(config_file) = keys(stocks)

\* C19: a fetch of refresh_all_stocks writes only a code that is still in the
\* dict.  With a user who never adds, the one fetch that may enter a code is
\* the one of the start; so once a code has been stored and then removed, by
\* delete or by clear, no fetch stores it again.
C19_RemovedStaysAbsent ==
    \A i, j, k \in 1..Len(hist.log) :
        ~ /\ i < j /\ j < k
          /\ hist.log[i].kind = "stored"
          /\ \/ hist.log[j] = Deleted(hist.log[i].code, 1)
             \/ hist.log[j] = Cleared
          /\ hist.log[k].kind = "stored"
          /\ hist.log[k].code = hist.log[i].code

\* ================================================================ the start

\* The events of one kind recorded for a code.
log_of(kind, code) ==
    {k \in 1..Len(hist.log) : hist.log[k].kind = kind /\ hist.log[k].code = code}

\* The fetches of a code that wait for their response.
in_flight(code) ==
    BagCardinality([r \in {x \in BagToSet(th) : x.pc = "net" /\ x.code = code} |-> th[r]])

\* C14: at the start one fetch is issued for each code of the file and none
\* for any other code: every code read has one fetch that is in flight or
\* has ended; each record stored is in the dict from then on; once no fetch
\* is in flight the dict holds the codes read whose fetch has stored, and no
\* other.  Without a file, or with one that is no JSON, no fetch is issued
\* and the dict stays empty.
C14_StartupFetchesPersisted ==
    /\ \A c \in Codes :
         /\ Cardinality(log_of("loaded", c)) <= 1
         /\ in_flight(c) + Cardinality(log_of("stored", c)) + Cardinality(log_of("error", c))
              = Cardinality(log_of("loaded", c))
         /\ log_of("stored", c) # {} => contains(stocks, c)
         /\ contains(stocks, c) => log_of("stored", c) # {}
    /\ hist.log = <<>> => stocks = <<>> /\ th = EmptyBag

\* The file held two codes; the fetch of one has failed and the fetch of the
\* other has stored its record, which is all the dict holds.
C14_OneStoredOneFailed ==
    \E c, d \in Codes :
        /\ log_of("loaded", c) # {} /\ log_of("loaded", d) # {}
        /\ log_of("stored", c) # {} /\ log_of("error", d) # {}
        /\ in_flight(c) + in_flight(d) = 0
        /\ keys(stocks) = <<c>>

\* ============================================================== refresh-all

\* C15: refresh_all_stocks issues one fetch for each code the dict held when
\* it was called, whatever the fetches in flight insert meanwhile: when its
\* loop is left, the iterator has passed as many entries as the dict held
\* when the iterator was made.
C15_RefreshFetchesSnapshot ==
    [][ (mn.pc = "refresh" /\ mn'.pc = "idle") => mn.it.pos = mn.it.used ]_vars

\* ================================================================= the view

\* C16: the rows of one redraw are the dict as it was at one moment of the
\* redraw.  Where codes are added and refreshed and none is removed, the dict
\* never gets smaller, so a redraw that has read fewer entries than the dict
\* held when its loop began shows the dict of no such moment; and it reads no
\* further entry once the size of the dict has changed (line 230 raises).
\* Hence: a redraw in its loop that finds the size changed has read every
\* entry of the dict it began with.
C16_RedrawShowsOneInstant ==
    \A r \in BagToSet(th) :
        (r.pc = "insert" /\ r.it.used # Len(stocks)) => r.it.pos = r.it.used

\* C20: with a user who does nothing, no code leaves the file: whenever the
\* file holds a list, the list has every code that was read from the file at
\* the start.
C20_StartupKeepsPersisted ==
    config_file.valid =>
        \A c \in Codes : log_of("loaded", c) # {} => c \in Range(config_file.codes)

====
